---- MODULE Spec2Model ----
(***************************************************************************)
(* Model of bad.py, the box-and-arrow diagram tool: the element tree       *)
(* (BoundedElement, ContainerElement/Box, VerticalLayout, HorizontalLayout)*)
(* with its update() pass, the RelativeAnchor resolution, and the Link     *)
(* router with its draw().                                                 *)
(*                                                                         *)
(* Numbers.  The source computes with Python floats and divides by two in  *)
(* three places (CENTER alignment, link mid points) and multiplies by the  *)
(* anchor references 0.0, 0.5 and 1.0.  The model is exact fixed point:    *)
(* every length is an integer count of 1/Unit source units, so the source  *)
(* value 5 is the model value 5 * Unit.  All inputs are whole source       *)
(* units; WholeSizes and WholeLinkEnds record that the halvings are then   *)
(* exact.                                                                  *)
(***************************************************************************)
EXTENDS Integers, Sequences, FiniteSets, TLC

VARIABLES
  root,    \* the element tree, as the program holds it now
  pre,     \* the tree as it was when the latest update() was called
  built,   \* the tree as the caller built it: explicit sizes, never updated
  nupd,    \* update() calls on the root since the last change (capped at 2)
  link,    \* the Link: start, end (each <<>> or <<anchor>>) and points
  drawn,   \* the point list of the polyline Link.draw() emitted last
  lastOp   \* the latest Link operation

vars == <<root, pre, built, nupd, link, drawn, lastOp>>

----------------------------------------------------------------------------
(* Bounds of the model *)

MaxChildren == 2    \* automatic children of the layout under test
MaxDim      == 2    \* a leaf is 10 by 10 * MaxDim source units, or turned
MaxCoord    == 1    \* link anchor coordinates are 0, 10, ... 10 * MaxCoord
MaxExtent   == 120  \* update() is not called once a size would pass this

(* Fixed point denominator (the source divides by 2) *)
Unit == 2

(* Defaults of the style dataclasses *)
DefaultMargin       == 5
DefaultLayoutMargin == 0
DefaultPadding      == 5
DefaultGap          == 5

U(n) == n * Unit

Max(a, b) == IF a >= b THEN a ELSE b
Min(a, b) == IF a <= b THEN a ELSE b

----------------------------------------------------------------------------
(* Vector2 *)

Vec(x, y) == [x |-> x, y |-> y]

VAdd(a, b)       == Vec(a.x + b.x, a.y + b.y)
VAddScalar(a, s) == Vec(a.x + s, a.y + s)
\* the product of two fixed point numbers
VMul(a, b)       == Vec((a.x * b.x) \div Unit, (a.y * b.y) \div Unit)
VMax(a, b)       == Vec(Max(a.x, b.x), Max(a.y, b.y))

Position(x, y, automatic) == [x |-> x, y |-> y, automatic |-> automatic]

----------------------------------------------------------------------------
(* Styles and elements.  Every element is a record of one shape; a kind    *)
(* leaves the fields it does not have empty.                               *)

START  == "START"
CENTER == "CENTER"
END    == "END"
LayoutAlignment == {START, CENTER, END}

NONE       == "NONE"
VERTICAL   == "VERTICAL"
HORIZONTAL == "HORIZONTAL"
AnchorDirection == {NONE, VERTICAL, HORIZONTAL}

BoxStyle(margin) ==
  [margin |-> margin, padding |-> 0, gap |-> 0, alignment |-> START]

LayoutStyle(margin, padding, gap, alignment) ==
  [margin |-> margin, padding |-> padding, gap |-> gap, alignment |-> alignment]

RelativeAnchor(name, direction, reference, offset) ==
  [name |-> name, direction |-> direction, reference |-> reference,
   offset |-> offset, position |-> Vec(0, 0)]

BoundedElement(position, size, anchors) ==
  [kind |-> "BoundedElement", position |-> position, size |-> size,
   style |-> BoxStyle(0), anchors |-> anchors,
   layout |-> <<>>, child |-> <<>>, children |-> <<>>]

BoxAnchors ==
  << RelativeAnchor("top_left",      NONE,       Vec(0, 0),               Vec(0, 0)),
     RelativeAnchor("top_center",    VERTICAL,   Vec(Unit \div 2, 0),     Vec(0, 0)),
     RelativeAnchor("top_right",     NONE,       Vec(Unit, 0),            Vec(0, 0)),
     RelativeAnchor("center_left",   HORIZONTAL, Vec(0, Unit \div 2),     Vec(0, 0)),
     RelativeAnchor("center_right",  HORIZONTAL, Vec(Unit, Unit \div 2),  Vec(0, 0)),
     RelativeAnchor("bottom_left",   NONE,       Vec(0, Unit),            Vec(0, 0)),
     RelativeAnchor("bottom_center", VERTICAL,   Vec(Unit \div 2, Unit),  Vec(0, 0)),
     RelativeAnchor("bottom_right",  NONE,       Vec(Unit, Unit),         Vec(0, 0)) >>

Box(position, size, margin, layout, child) ==
  [kind |-> "Box", position |-> position, size |-> size,
   style |-> BoxStyle(margin), anchors |-> BoxAnchors,
   layout |-> layout, child |-> child, children |-> <<>>]

Layout(kind, position, size, style, anchors, children) ==
  [kind |-> kind, position |-> position, size |-> size,
   style |-> style, anchors |-> anchors,
   layout |-> <<>>, child |-> <<>>, children |-> children]

IsLayout(n) == n.kind \in {"VerticalLayout", "HorizontalLayout"}

----------------------------------------------------------------------------
(* update() *)

RECURSIVE Update(_)

AnchorPosition(anchor, size) ==
  VAdd(VMul(anchor.reference, size), anchor.offset)

BoundedElementUpdate(n) ==
  [n EXCEPT !.anchors =
     [i \in DOMAIN n.anchors |->
        [n.anchors[i] EXCEPT !.position = AnchorPosition(n.anchors[i], n.size)]]]

ContainerGrow(size, inner) ==
  VAddScalar(VMax(size, inner.size), 2 * inner.style.margin)

ContainerElementUpdate(n) ==
  LET b  == BoundedElementUpdate(n)
      l  == IF Len(b.layout) = 1 THEN <<Update(b.layout[1])>> ELSE <<>>
      s1 == IF Len(l) = 1 THEN ContainerGrow(b.size, l[1]) ELSE b.size
      c  == IF Len(b.child) = 1 THEN <<Update(b.child[1])>> ELSE <<>>
      s2 == IF Len(c) = 1 THEN ContainerGrow(s1, c[1]) ELSE s1
  IN  [b EXCEPT !.layout = l, !.child = c, !.size = s2]

LayoutUpdate(n) ==
  [n EXCEPT !.children = [i \in DOMAIN n.children |-> Update(n.children[i])]]

(* VerticalLayout *)

\* mutant: the inset ignores the layout's padding
ChildXMargin_MarginOnly(child, style) == child.style.margin

ChildXMargin(child, style) == Max(child.style.margin, style.padding)

RECURSIVE MaxXBound(_, _, _, _)
MaxXBound(children, style, i, max_x_bound) ==
  IF i > Len(children) THEN max_x_bound
  ELSE LET child == children[i]
       IN  MaxXBound(children, style, i + 1,
             IF child.position.automatic
               THEN Max(max_x_bound, child.size.x + 2 * ChildXMargin(child, style))
               ELSE max_x_bound)

\* mutant: the margin of the child just placed is forgotten
NextGapY_GapOnly(style, child) == style.gap

NextGapY(style, child) == Max(style.gap, child.style.margin)

TrailingGapY(current_gap, style) == Max(current_gap, style.padding)

RECURSIVE PlaceY(_, _, _, _, _)
PlaceY(children, style, i, current_gap, child_y) ==
  IF i > Len(children)
    THEN [children |-> children,
          child_y  |-> child_y + TrailingGapY(current_gap, style)]
  ELSE LET child == children[i]
       IN  IF child.position.automatic
             THEN LET gap == Max(current_gap, child.style.margin)
                      y   == child_y + gap
                  IN  PlaceY([children EXCEPT ![i].position.y = y], style, i + 1,
                             NextGapY(style, child), y + child.size.y)
             ELSE PlaceY(children, style, i + 1, current_gap, child_y)

AlignedX(child, style, width) ==
  CASE style.alignment = START  -> ChildXMargin(child, style)
    [] style.alignment = CENTER -> (width - child.size.x) \div 2
    [] style.alignment = END    -> width - ChildXMargin(child, style) - child.size.x

\* mutant: the alignment forgets to skip the manual children
AlignX_All(children, style, width) ==
  [i \in DOMAIN children |->
     [children[i] EXCEPT !.position.x = AlignedX(children[i], style, width)]]

AlignX(children, style, width) ==
  [i \in DOMAIN children |->
     IF children[i].position.automatic
       THEN [children[i] EXCEPT !.position.x = AlignedX(children[i], style, width)]
       ELSE children[i]]

VerticalLayoutUpdate(n) ==
  LET l0          == LayoutUpdate(n)
      max_x_bound == MaxXBound(l0.children, l0.style, 1, l0.size.x)
      placed      == PlaceY(l0.children, l0.style, 1, l0.style.padding, 0)
      aligned     == AlignX(placed.children, l0.style, max_x_bound)
  IN  [l0 EXCEPT !.children = aligned,
                 !.size     = Vec(max_x_bound, placed.child_y)]

(* HorizontalLayout *)

ChildYMargin(child, style) == Max(child.style.margin, style.padding)

RECURSIVE MaxYBound(_, _, _, _)
MaxYBound(children, style, i, max_y_bound) ==
  IF i > Len(children) THEN max_y_bound
  ELSE LET child == children[i]
       IN  MaxYBound(children, style, i + 1,
             IF child.position.automatic
               THEN Max(max_y_bound, child.size.y + 2 * ChildYMargin(child, style))
               ELSE max_y_bound)

NextGapX(style, child) == Max(style.gap, child.style.margin)

TrailingGapX(current_gap, style) == Max(current_gap, style.padding)

RECURSIVE PlaceX(_, _, _, _, _)
PlaceX(children, style, i, current_gap, child_x) ==
  IF i > Len(children)
    THEN [children |-> children,
          child_x  |-> child_x + TrailingGapX(current_gap, style)]
  ELSE LET child == children[i]
       IN  IF child.position.automatic
             THEN LET gap == Max(current_gap, child.style.margin)
                      x   == child_x + gap
                  IN  PlaceX([children EXCEPT ![i].position.x = x], style, i + 1,
                             NextGapX(style, child), x + child.size.x)
             ELSE PlaceX(children, style, i + 1, current_gap, child_x)

\* mutant: CENTER copied from the vertical layout, still reading the width
AlignedY_Copied(child, style, height) ==
  CASE style.alignment = START  -> Max(child.style.margin, style.padding)
    [] style.alignment = CENTER -> (height - child.size.x) \div 2
    [] style.alignment = END    ->
         height - Max(child.style.margin, style.padding) - child.size.y

AlignedY(child, style, height) ==
  CASE style.alignment = START  -> ChildYMargin(child, style)
    [] style.alignment = CENTER -> (height - child.size.y) \div 2
    [] style.alignment = END    -> height - ChildYMargin(child, style) - child.size.y

AlignY(children, style, height) ==
  [i \in DOMAIN children |->
     IF children[i].position.automatic
       THEN [children[i] EXCEPT !.position.y = AlignedY(children[i], style, height)]
       ELSE children[i]]

HorizontalLayoutUpdate(n) ==
  LET l0          == LayoutUpdate(n)
      max_y_bound == MaxYBound(l0.children, l0.style, 1, l0.size.y)
      placed      == PlaceX(l0.children, l0.style, 1, l0.style.padding, 0)
      aligned     == AlignY(placed.children, l0.style, max_y_bound)
  IN  [l0 EXCEPT !.children = aligned,
                 !.size     = Vec(placed.child_x, max_y_bound)]

Update(n) ==
  CASE n.kind = "BoundedElement"   -> BoundedElementUpdate(n)
    [] n.kind = "Box"              -> ContainerElementUpdate(n)
    [] n.kind = "VerticalLayout"   -> VerticalLayoutUpdate(n)
    [] n.kind = "HorizontalLayout" -> HorizontalLayoutUpdate(n)

----------------------------------------------------------------------------
(* Walking the tree: a path is the sequence of steps from the root; in a   *)
(* container step 1 is its layout and step 2 its child, in a layout step i *)
(* is its i-th child.                                                      *)

Steps(n) ==
  IF IsLayout(n) THEN DOMAIN n.children
  ELSE (IF Len(n.layout) = 1 THEN {1} ELSE {}) \cup
       (IF Len(n.child)  = 1 THEN {2} ELSE {})

Sub(n, k) ==
  IF IsLayout(n) THEN n.children[k]
  ELSE IF k = 1 THEN n.layout[1] ELSE n.child[1]

RECURSIVE Paths(_)
Paths(n) ==
  {<<>>} \cup UNION {{<<k>> \o p : p \in Paths(Sub(n, k))} : k \in Steps(n)}

RECURSIVE NodeAt(_, _)
NodeAt(n, p) == IF p = <<>> THEN n ELSE NodeAt(Sub(n, Head(p)), Tail(p))

RECURSIVE SetSize(_, _, _)
SetSize(n, p, size) ==
  IF p = <<>> THEN [n EXCEPT !.size = size]
  ELSE LET k == Head(p)
           m == SetSize(Sub(n, k), Tail(p), size)
       IN  IF IsLayout(n) THEN [n EXCEPT !.children[k] = m]
           ELSE IF k = 1  THEN [n EXCEPT !.layout = <<m>>]
           ELSE                [n EXCEPT !.child = <<m>>]

IsLeaf(n) == Steps(n) = {}

\* the largest width or height anywhere in the tree
RECURSIVE Extent(_)
Extent(n) ==
  LET own == Max(n.size.x, n.size.y)
      S   == {Extent(Sub(n, k)) : k \in Steps(n)}
  IN  IF S = {} THEN own
      ELSE Max(own, CHOOSE e \in S : \A f \in S : f <= e)

----------------------------------------------------------------------------
(* The trees the model is run on *)

\* a narrow, tall leaf and a wide, low one
LeafSizes == {Vec(U(10), U(10 * MaxDim)), Vec(U(10 * MaxDim), U(10))}
Margins   == {0, U(2), U(10)}
Paddings  == {0, U(DefaultPadding)}

Automatic == Position(0, 0, TRUE)
Manual    == Position(U(3), U(4), FALSE)

AutoLeaves   == {Box(Automatic, s, m, <<>>, <<>>) : s \in LeafSizes, m \in Margins}
ManualLeaves == {Box(Manual, Vec(U(20), U(20)), U(10), <<>>, <<>>)}

Insert(seq, k, e) == SubSeq(seq, 1, k) \o <<e>> \o SubSeq(seq, k + 1, Len(seq))

\* up to MaxChildren automatic leaves, and at most one manual leaf among them
AutoSeqs == UNION {[1..k -> AutoLeaves] : k \in 0..MaxChildren}
ChildSeqs ==
  AutoSeqs \cup
  UNION {{Insert(seq, k, e) : k \in 0..Len(seq), e \in ManualLeaves} : seq \in AutoSeqs}

Corner == <<RelativeAnchor("corner", NONE, Vec(Unit, Unit), Vec(0, 0))>>

LayoutKinds == {"VerticalLayout", "HorizontalLayout"}

FlatLayouts ==
  {Layout(kind, Automatic, size,
          LayoutStyle(U(DefaultLayoutMargin), padding, U(DefaultGap), alignment),
          <<>>, children) :
     kind \in LayoutKinds, size \in {Vec(0, 0), Vec(U(30), U(30))},
     padding \in Paddings, alignment \in LayoutAlignment, children \in ChildSeqs}

----------------------------------------------------------------------------
(* Operations on the tree *)

UpdateRoot ==
  /\ Extent(Update(root)) <= U(MaxExtent)
  /\ root' = Update(root)
  /\ pre'  = root
  /\ nupd' = Min(nupd + 1, 2)
  /\ UNCHANGED <<built, link, drawn, lastOp>>

\* the caller assigns a new explicit size to a leaf element
Resize(p, size) ==
  /\ nupd >= 1
  /\ IsLeaf(NodeAt(root, p))
  /\ NodeAt(root, p).size # size
  /\ root'  = SetSize(root, p, size)
  /\ pre'   = root'
  /\ built' = SetSize(built, p, size)
  /\ nupd'  = 0
  /\ UNCHANGED <<link, drawn, lastOp>>

NoLink == [start |-> <<>>, end |-> <<>>, points |-> <<>>, position |-> Vec(0, 0)]

InitTree(trees) ==
  /\ root \in trees
  /\ pre = root
  /\ built = root
  /\ nupd = 0
  /\ link = NoLink
  /\ drawn = <<>>
  /\ lastOp = "init"

NextTree ==
  \/ UpdateRoot
  \/ \E p \in Paths(root), size \in LeafSizes : Resize(p, size)

(* One layout of leaves, updated: VerticalLayout.update() and               *)
(* HorizontalLayout.update() on every input of FlatLayouts, and again on   *)
(* their own results.                                                      *)

InitLayout == InitTree(FlatLayouts)

NextLayout == UpdateRoot

SpecLayout == InitLayout /\ [][NextLayout]_vars

(* Nested trees: containers with a layout and/or a child, under a layout   *)
(* or under another container; and layouts of leaves whose sizes the       *)
(* caller changes between updates.                                         *)

TreeLeaves == {Box(Automatic, s, U(DefaultMargin), <<>>, <<>>) : s \in LeafSizes}

LeafSeqs == UNION {[1..k -> TreeLeaves] : k \in 0..MaxChildren}

InnerLayouts ==
  {Layout(kind, Automatic, Vec(0, 0),
          LayoutStyle(margin, U(DefaultPadding), U(DefaultGap), CENTER),
          Corner, children) :
     kind \in LayoutKinds, margin \in {U(DefaultLayoutMargin), U(3)},
     children \in LeafSeqs}

Optional(S) == {<<>>} \cup {<<e>> : e \in S}

Containers ==
  {Box(Automatic, size, U(DefaultMargin), layout, child) :
     size \in {Vec(0, 0), Vec(U(40), U(40))},
     layout \in Optional(InnerLayouts), child \in Optional(TreeLeaves)}

PlainElements == {BoundedElement(Automatic, s, Corner) : s \in LeafSizes}

DefaultLayoutStyle ==
  LayoutStyle(U(DefaultLayoutMargin), U(DefaultPadding), U(DefaultGap), START)

Trees ==
  PlainElements \cup Containers \cup
  {Layout("VerticalLayout", Automatic, Vec(0, 0), DefaultLayoutStyle, Corner, <<b>>) :
     b \in Containers} \cup
  {Box(Automatic, Vec(0, 0), U(DefaultMargin), <<>>, <<b>>) : b \in Containers} \cup
  {l \in FlatLayouts : l.style = DefaultLayoutStyle /\ l.size = Vec(0, 0)}

InitNested == InitTree(Trees)

SpecTree == InitNested /\ [][NextTree]_vars

----------------------------------------------------------------------------
(* Link *)

\* an element as a link sees it: a position and the chain of its parents
Located(position, parent) == [position |-> position, parent |-> parent]

Anchor(position, direction, parent) ==
  [position |-> position, direction |-> direction, parent |-> parent]

RECURSIVE AbsolutePosition(_)
AbsolutePosition(e) ==
  IF Len(e.parent) = 1
    THEN VAdd(e.position, AbsolutePosition(e.parent[1]))
    ELSE e.position

MidPoint(a, b) == (a + b) \div 2

\* mutant: the two elbows exchanged
Elbow_Swapped(start, s, e) ==
  IF start.direction = HORIZONTAL THEN Vec(s.x, e.y) ELSE Vec(e.x, s.y)

Elbow(start, s, e) ==
  IF start.direction = HORIZONTAL THEN Vec(e.x, s.y) ELSE Vec(s.x, e.y)

Route(start, end) ==
  LET s == AbsolutePosition(start)
      e == AbsolutePosition(end)
      middle ==
        IF start.direction = end.direction
          THEN IF start.direction = HORIZONTAL
                 THEN IF s.y = e.y THEN <<>>
                      ELSE LET mid_point_x == MidPoint(s.x, e.x)
                           IN  <<Vec(mid_point_x, s.y), Vec(mid_point_x, e.y)>>
                 ELSE IF s.x = e.x THEN <<>>
                      ELSE LET mid_point_y == MidPoint(s.y, e.y)
                           IN  <<Vec(s.y, mid_point_y), Vec(e.y, mid_point_y)>>
          ELSE <<Elbow(start, s, e)>>
  IN  <<s>> \o middle \o <<e>>

LinkUpdate(l) ==
  IF Len(l.start) = 0 \/ Len(l.end) = 0 THEN l
  ELSE [l EXCEPT !.points = Route(l.start[1], l.end[1])]

\* the points of the polyline, in the order they are written
LinkDraw(l) == [i \in DOMAIN l.points |-> VAdd(l.points[i], l.position)]

Coords == {U(10 * i) : i \in 0..MaxCoord}

LinkAnchors ==
  {Anchor(Vec(x, y), d, <<>>) : x \in Coords, y \in Coords, d \in AnchorDirection}
  \cup {Anchor(Vec(0, U(10)), HORIZONTAL, <<Located(Vec(U(10), 0), <<>>)>>)}

Unset(l) == Len(l.start) = 0 \/ Len(l.end) = 0

\* link.start = a, from unset to an anchor or back to None
SetStart(a) ==
  /\ (Len(a) = 0) # (Len(link.start) = 0)
  /\ link' = [link EXCEPT !.start = a]
  /\ lastOp' = "set"
  /\ drawn' = <<>>
  /\ UNCHANGED <<root, pre, built, nupd>>

SetEnd(a) ==
  /\ (Len(a) = 0) # (Len(link.end) = 0)
  /\ link' = [link EXCEPT !.end = a]
  /\ lastOp' = "set"
  /\ drawn' = <<>>
  /\ UNCHANGED <<root, pre, built, nupd>>

UpdateLink ==
  /\ link' = LinkUpdate(link)
  /\ lastOp' = "update"
  /\ drawn' = <<>>
  /\ UNCHANGED <<root, pre, built, nupd>>

DrawLink ==
  /\ drawn' = LinkDraw(link)
  /\ lastOp' = "draw"
  /\ UNCHANGED <<link, root, pre, built, nupd>>

Idle == BoundedElement(Automatic, Vec(0, 0), <<>>)

InitLink ==
  /\ link = NoLink
  /\ drawn = <<>>
  /\ lastOp = "init"
  /\ root = Idle
  /\ pre = Idle
  /\ built = Idle
  /\ nupd = 0

NextLink ==
  \/ \E a \in Optional(LinkAnchors) : SetStart(a)
  \/ \E a \in Optional(LinkAnchors) : SetEnd(a)
  \/ UpdateLink
  \/ DrawLink

SpecLink == InitLink /\ [][NextLink]_vars

----------------------------------------------------------------------------
(* The fixed point arithmetic is exact: every size and every link end is a *)
(* whole number of source units, so each \div above divides evenly.        *)

WholeSizes ==
  \A p \in Paths(root) :
    NodeAt(root, p).size.x % Unit = 0 /\ NodeAt(root, p).size.y % Unit = 0

WholeLinkEnds ==
  \A a \in LinkAnchors :
    AbsolutePosition(a).x % Unit = 0 /\ AbsolutePosition(a).y % Unit = 0

----------------------------------------------------------------------------
(* Helpers of the properties *)

AutoIdx(children) == {i \in DOMAIN children : children[i].position.automatic}

\* i and j are automatic children with no automatic child between them
Consecutive(children, i, j) ==
  /\ i < j
  /\ i \in AutoIdx(children)
  /\ j \in AutoIdx(children)
  /\ \A k \in AutoIdx(children) : ~(i < k /\ k < j)

SetMax(S, least) == IF S = {} THEN least ELSE CHOOSE e \in S : \A f \in S : f <= e

\* position and size of every bounded element of the tree
Geometry(n) ==
  {<<p, NodeAt(n, p).position, NodeAt(n, p).size>> : p \in Paths(n)}

Swap(v) == [v EXCEPT !.x = v.y, !.y = v.x]

\* the same tree with the two axes exchanged
RECURSIVE Transpose(_)
Transpose(n) ==
  [n EXCEPT
     !.kind     = CASE n.kind = "VerticalLayout"   -> "HorizontalLayout"
                    [] n.kind = "HorizontalLayout" -> "VerticalLayout"
                    [] OTHER                       -> n.kind,
     !.position = Swap(n.position),
     !.size     = Swap(n.size),
     !.anchors  = [i \in DOMAIN n.anchors |->
                     [n.anchors[i] EXCEPT !.reference = Swap(n.anchors[i].reference),
                                          !.offset    = Swap(n.anchors[i].offset),
                                          !.position  = Swap(n.anchors[i].position)]],
     !.layout   = [i \in DOMAIN n.layout   |-> Transpose(n.layout[i])],
     !.child    = [i \in DOMAIN n.child    |-> Transpose(n.child[i])],
     !.children = [i \in DOMAIN n.children |-> Transpose(n.children[i])]]

Updated == nupd >= 1

----------------------------------------------------------------------------
(* C1: update() called twice in a row on the root, with nothing changed in *)
(* between, leaves the position and size of every element as the first     *)
(* call left them.                                                         *)
C1_UpdateIdempotent ==
  nupd = 2 => Geometry(root) = Geometry(pre)

(* C2: after update() a container's size is the componentwise max of its   *)
(* size before the update and (layout size + 2 x layout margin), likewise  *)
(* for its direct child with the child's margin; with neither, its size is *)
(* unchanged.                                                              *)
C2_ContainerSize ==
  Updated =>
    \A p \in Paths(root) :
      LET before == NodeAt(pre, p)
          after  == NodeAt(root, p)
          s1 == IF Len(after.layout) = 1
                  THEN VMax(before.size,
                            VAddScalar(after.layout[1].size,
                                       2 * after.layout[1].style.margin))
                  ELSE before.size
          s2 == IF Len(after.child) = 1
                  THEN VMax(s1, VAddScalar(after.child[1].size,
                                           2 * after.child[1].style.margin))
                  ELSE s1
      IN  after.kind = "Box" => after.size = s2

(* C3: when update() returns, every RelativeAnchor of every bounded        *)
(* element is at reference * size + offset for the size the element has    *)
(* then.                                                                   *)
C3_AnchorsTrackSize ==
  Updated =>
    \A p \in Paths(root) :
      LET n == NodeAt(root, p)
      IN  \A i \in DOMAIN n.anchors :
            n.anchors[i].position =
              VAdd(Vec((n.anchors[i].reference.x * n.size.x) \div Unit,
                       (n.anchors[i].reference.y * n.size.y) \div Unit),
                   n.anchors[i].offset)

----------------------------------------------------------------------------
\* padding 5, gap 5, and the one child automatic, 20 high, with margin 0
C5_Example(l) ==
  /\ l.style.padding = U(5)
  /\ l.style.gap = U(5)
  /\ Len(l.children) = 1
  /\ l.children[1].position.automatic
  /\ l.children[1].size.y = U(20)
  /\ l.children[1].style.margin = 0

StartAligned(l) == l.kind = "VerticalLayout" /\ l.style.alignment = START

(* C5, as the claim states it: in a VerticalLayout aligned START the first *)
(* automatic child's y is max(padding, child margin) and each automatic    *)
(* child's x is the child's own margin; the example layout is 30 high with *)
(* its child at (0,5).                                                     *)
C5_Original ==
  (Updated /\ StartAligned(root)) =>
    LET c == root.children
        A == AutoIdx(c)
    IN  /\ \A i \in A : (\A j \in A : i <= j) =>
              c[i].position.y = Max(root.style.padding, c[i].style.margin)
        /\ \A i \in A : c[i].position.x = c[i].style.margin
        /\ C5_Example(root) =>
              /\ root.size.y = U(30)
              /\ c[1].position.x = 0
              /\ c[1].position.y = U(5)

(* C5, amended: in a VerticalLayout aligned START the first automatic      *)
(* child's y is max(padding, child margin) and each automatic child's x is *)
(* max(child margin, padding); the example layout is 30 high with its      *)
(* child at (5,5).                                                         *)
C5_StartInset ==
  (Updated /\ StartAligned(root)) =>
    LET c == root.children
        A == AutoIdx(c)
    IN  /\ \A i \in A : (\A j \in A : i <= j) =>
              c[i].position.y = Max(root.style.padding, c[i].style.margin)
        /\ \A i \in A : c[i].position.x = Max(c[i].style.margin, root.style.padding)
        /\ C5_Example(root) =>
              /\ root.size.y = U(30)
              /\ c[1].position.x = U(5)
              /\ c[1].position.y = U(5)

C5_Witness ==
  /\ Updated
  /\ StartAligned(root)
  /\ C5_Example(root)
  /\ root.size.y = U(30)
  /\ root.children[1].position.x = U(5)
  /\ root.children[1].position.y = U(5)

(* C6: after a layout's update() the distance along the main axis from the *)
(* end of an automatic child to the start of the next automatic child is   *)
(* max(gap, margin of the earlier, margin of the later), whatever manual   *)
(* children are listed between the two.                                    *)
C6_GapBetween ==
  (Updated /\ IsLayout(root)) =>
    LET c == root.children
    IN  \A i \in DOMAIN c, j \in DOMAIN c :
          Consecutive(c, i, j) =>
            LET want == Max(root.style.gap, Max(c[i].style.margin, c[j].style.margin))
            IN  IF root.kind = "VerticalLayout"
                  THEN c[j].position.y - (c[i].position.y + c[i].size.y) = want
                  ELSE c[j].position.x - (c[i].position.x + c[i].size.x) = want

\* margins 10 and 2 around a manual child, gap 5: the distance is 10
C6_Witness ==
  /\ Updated
  /\ root.kind = "VerticalLayout"
  /\ root.style.gap = U(5)
  /\ Len(root.children) = 3
  /\ Consecutive(root.children, 1, 3)
  /\ root.children[1].style.margin = U(10)
  /\ root.children[3].style.margin = U(2)
  /\ root.children[3].position.y
       - (root.children[1].position.y + root.children[1].size.y) = U(10)

(* C9: HorizontalLayout.update() on a layout with the axes exchanged gives *)
(* the result of VerticalLayout.update() with the axes exchanged, and the  *)
(* other way round: child positions and layout size are transposes.        *)
C9_Duality ==
  (Updated /\ IsLayout(pre)) => Update(Transpose(pre)) = Transpose(root)

C9_Witness ==
  /\ Updated
  /\ root.kind = "HorizontalLayout"
  /\ root.style.alignment = CENTER
  /\ Cardinality(AutoIdx(root.children)) = 2
  /\ Len(root.children) = 3
  /\ root.size.x # root.size.y
  /\ \E i \in AutoIdx(root.children) : root.children[i].position.y # pre.children[i].position.y

(* C10: after any sequence of child size changes, each followed by         *)
(* update(), a VerticalLayout's width is max(the explicit width it was     *)
(* built with, max over its automatic children of width + 2 * max(margin,  *)
(* padding)), and dually the height of a HorizontalLayout: nothing of an   *)
(* earlier update persists.                                                *)
C10_NoPersistedSize ==
  (Updated /\ IsLayout(root)) =>
    LET c   == root.children
        pad == root.style.padding
        needX == SetMax({c[i].size.x + 2 * Max(c[i].style.margin, pad) : i \in AutoIdx(c)}, 0)
        needY == SetMax({c[i].size.y + 2 * Max(c[i].style.margin, pad) : i \in AutoIdx(c)}, 0)
    IN  IF root.kind = "VerticalLayout"
          THEN root.size.x = Max(built.size.x, needX)
          ELSE root.size.y = Max(built.size.y, needY)

IsAutomatic(child) == child.position.automatic

\* the same layout with its manual children taken out
WithoutManual(l) == [l EXCEPT !.children = SelectSeq(l.children, IsAutomatic)]

\* the positions of the automatic children, in order
AutoPositions(l) ==
  LET c == SelectSeq(l.children, IsAutomatic)
  IN  [i \in DOMAIN c |-> c[i].position]

(* C11: a layout's update() never changes the position of a child whose    *)
(* position is not automatic, and such children contribute nothing: the    *)
(* layout's size and the positions of its automatic children are those of  *)
(* the same layout with the manual children removed; the layout's own      *)
(* position is unchanged.                                                  *)
C11_ManualUntouched ==
  (Updated /\ IsLayout(pre)) =>
    LET alone == Update(WithoutManual(pre))
    IN  /\ \A i \in DOMAIN pre.children :
              ~IsAutomatic(pre.children[i]) =>
                root.children[i].position = pre.children[i].position
        /\ root.size = alone.size
        /\ AutoPositions(root) = AutoPositions(alone)
        /\ root.position = pre.position

\* a manual child between two automatic ones, still at (3,4) after update()
C11_Witness ==
  /\ Updated
  /\ IsLayout(root)
  /\ Len(root.children) = 3
  /\ Consecutive(root.children, 1, 3)
  /\ root.children[2].position = Manual
  /\ root.children[3].position # pre.children[3].position

----------------------------------------------------------------------------
Routed == lastOp = "update" /\ ~Unset(link)

AxisAligned(points) ==
  \A i \in 1..(Len(points) - 1) :
    points[i].x = points[i + 1].x \/ points[i].y = points[i + 1].y

(* C4: after Link.update() with both endpoints set, every two consecutive  *)
(* route points share their x or their y; for two VERTICAL anchors with    *)
(* different x the route is the dogleg through (start.x, midY) and         *)
(* (end.x, midY).                                                          *)
C4_AxisAligned ==
  Routed =>
    LET s == AbsolutePosition(link.start[1])
        e == AbsolutePosition(link.end[1])
        midY == (s.y + e.y) \div 2
    IN  /\ AxisAligned(link.points)
        /\ (/\ link.start[1].direction = VERTICAL
            /\ link.end[1].direction = VERTICAL
            /\ s.x # e.x)
           => link.points = <<s, Vec(s.x, midY), Vec(e.x, midY), e>>

(* C7: while an endpoint is unset, update() leaves the link as it was and  *)
(* draw() emits a polyline with an empty point list, also when the link    *)
(* was routed earlier.                                                     *)
C7_UnsetIsEmpty ==
  [][/\ (Unset(link) /\ lastOp' = "update") => link' = link
     /\ (Unset(link) /\ lastOp' = "draw")   => drawn' = <<>>]_vars

(* C8: anchors of different directions give exactly [start, elbow, end],   *)
(* the elbow at (end.x, start.y) when the start anchor is HORIZONTAL and   *)
(* at (start.x, end.y) otherwise; two HORIZONTAL anchors at equal y give   *)
(* exactly [start, end].                                                   *)
C8_Elbow ==
  Routed =>
    LET a == link.start[1]
        b == link.end[1]
        s == AbsolutePosition(a)
        e == AbsolutePosition(b)
    IN  /\ a.direction # b.direction =>
             link.points =
               <<s, IF a.direction = HORIZONTAL THEN Vec(e.x, s.y) ELSE Vec(s.x, e.y), e>>
        /\ (a.direction = HORIZONTAL /\ b.direction = HORIZONTAL /\ s.y = e.y) =>
             link.points = <<s, e>>

\* start HORIZONTAL at (0,0), end VERTICAL at (10,10): [(0,0), (10,0), (10,10)]
C8_Witness ==
  /\ Routed
  /\ link.start = <<Anchor(Vec(0, 0), HORIZONTAL, <<>>)>>
  /\ link.end   = <<Anchor(Vec(U(10), U(10)), VERTICAL, <<>>)>>
  /\ link.points = <<Vec(0, 0), Vec(U(10), 0), Vec(U(10), U(10))>>

====
